---- MODULE Spec2Model ----
(***************************************************************************)
(* Campus event backend: venue conflict detection, availability and        *)
(* schedule queries, and the event create/update handlers that use them.   *)
(* Time is counted in whole days; a Date is a record {valid, time} so that *)
(* JavaScript's Invalid Date (every comparison false) is representable.    *)
(***************************************************************************)
EXTENDS Integers, Sequences, FiniteSets, TLC

\* ------------------------------------------------------------------ bounds
MaxTime == 3
MaxEvents == 2
MaxSeed == 1
MaxCalls == 2
MaxAttendees == 2

\* ------------------------------------------------------- program constants
\* 7 * 24 * 60 * 60 * 1000 ms, in days
SevenDays == 7

\* ------------------------------------------------------------------ domains
Times == 0..MaxTime
EventIds == 1..MaxEvents
Locations == {"HallA", "HallB"}
EventStatus == {"PENDING", "APPROVED", "REJECTED", "CANCELLED"}
Organizers == {"org1", "org2"}
Admins == {"admin1"}
Students == {"stu1", "stu2"}
Role(u) == IF u \in Admins THEN "ADMIN" ELSE "ORGANIZER"

\* A date string as it arrives in a request: absent (undefined or ""),
\* a string that is no date at all, an ISO-8601 form that new Date() does
\* not parse (a week date "2030-W01-1", a basic date "20300102"), or an
\* ISO-8601 string for day t that it does parse.
AbsentStr == [kind |-> "absent", t |-> 0]
MalformedStr == [kind |-> "malformed", t |-> 0]
UnparsedIsoStr == [kind |-> "isoUnparsed", t |-> 0]
IsoStr(t) == [kind |-> "iso", t |-> t]
DateInputs == {AbsentStr, MalformedStr, UnparsedIsoStr} \cup {IsoStr(t) : t \in Times}

\* JavaScript truthiness of a query/body string
Truthy(s) == s.kind # "absent"
\* express-validator isISO8601(): the syntax of ISO 8601, whether or not
\* new Date() reads the string
isISO8601(s) == s.kind \in {"iso", "isoUnparsed"}

\* new Date(str)
InvalidDate == [valid |-> FALSE, time |-> 0]
DateOf(t) == [valid |-> TRUE, time |-> t]
NewDate(s) == IF s.kind = "iso" THEN DateOf(s.t) ELSE InvalidDate

\* (variant: > in place of >=)
DateGe_Strict(a, b) == a.valid /\ b.valid /\ a.time > b.time

\* a >= b and a < b on Date objects (NaN compares false both ways)
DateGe(a, b) == a.valid /\ b.valid /\ a.time >= b.time
DateLt(a, b) == a.valid /\ b.valid /\ a.time < b.time

\* no location in the request (undefined or "")
NoLocation == ""
LocationInputs == Locations \cup {NoLocation}

\* maxAttendees of a request body: 0 when not supplied, else the number
CapacityInputs == 0..MaxAttendees

\* excludeEventId: {} when not supplied, {id} when supplied
ExcludeInputs == {{}} \cup {{i} : i \in EventIds}

\* events: the Event table; nextId: the next fresh event id;
\* registrations: the Registration table; nextRegId: the next fresh
\* registration id;
\* calls: the HTTP requests being served (one record per connection)
VARIABLES events, nextId, registrations, nextRegId, calls
vars == <<events, nextId, registrations, nextRegId, calls>>

\* ------------------------------------------------------------ event store
\* An event row is [id, location, startDate, endDate, status, createdById,
\* maxAttendees, currentAttendees]; a registration row is
\* [id, userId, eventId, status, qrCode].
\* The statuses that occupy a venue:
ActiveStatuses == {"APPROVED", "PENDING"}

\* ------------------------------------------------- checkEventConflict
\* (variant: gte in place of gt on the end bound)
StartsDuringExisting_Gte(x, startDate, endDate) ==
    x.startDate <= startDate /\ x.endDate >= startDate

\* OR[0]: new event starts during existing event
StartsDuringExisting(x, startDate, endDate) ==
    x.startDate <= startDate /\ x.endDate > startDate

\* (variant: gt in place of lt on the start bound)
EndsDuringExisting_Gt(x, startDate, endDate) ==
    x.startDate > endDate /\ x.endDate >= endDate

\* OR[1]: new event ends during existing event
EndsDuringExisting(x, startDate, endDate) ==
    x.startDate < endDate /\ x.endDate >= endDate

\* (variant: lte in place of gte on the start bound)
ContainsExisting_Lte(x, startDate, endDate) ==
    x.startDate <= startDate /\ x.endDate <= endDate

\* OR[2]: new event completely contains existing event
ContainsExisting(x, startDate, endDate) ==
    x.startDate >= startDate /\ x.endDate <= endDate

\* (variant: the ADMIN exemption is missing)
NotOwnerNorAdmin_NoAdmin(event, user) == event.createdById # user

\* event.createdById !== userId && req.user.role !== 'ADMIN'
NotOwnerNorAdmin(event, user) == event.createdById # user /\ Role(user) # "ADMIN"

\* (variant: no status filter)
StatusOccupies_Any(x) == x.status \in EventStatus

\* status: { in: [APPROVED, PENDING] }
StatusOccupies(x) == x.status \in ActiveStatuses

\* (variant: the exclusion is not applied)
NotExcluded_Ignored(x, excludeEventId) == TRUE

\* if (excludeEventId) where.id = { not: excludeEventId }
NotExcluded(x, excludeEventId) == x.id \notin excludeEventId

\* (variant: the location filter is missing)
ConflictWhere_AnyLocation(x, location, startDate, endDate, excludeEventId) ==
    /\ StatusOccupies(x)
    /\ \/ StartsDuringExisting(x, startDate, endDate)
       \/ EndsDuringExisting(x, startDate, endDate)
       \/ ContainsExisting(x, startDate, endDate)
    /\ NotExcluded(x, excludeEventId)

\* the where clause of the findFirst
ConflictWhere(x, location, startDate, endDate, excludeEventId) ==
    /\ x.location = location
    /\ StatusOccupies(x)
    /\ \/ StartsDuringExisting(x, startDate, endDate)
       \/ EndsDuringExisting(x, startDate, endDate)
       \/ ContainsExisting(x, startDate, endDate)
    /\ NotExcluded(x, excludeEventId)

\* The possible results of checkEventConflict on store evts.  findFirst has
\* no orderBy, so any matching row may be the one returned.
checkEventConflict(evts, location, startDate, endDate, excludeEventId) ==
    LET matching == {x \in evts :
                       ConflictWhere(x, location, startDate, endDate, excludeEventId)}
    IN  IF matching = {}
        THEN {[hasConflict |-> FALSE, conflictingEvent |-> {}]}
        ELSE {[hasConflict |-> TRUE, conflictingEvent |-> {x.id}] : x \in matching}

\* The ORM rejects a Date whose time value is NaN before running a query
PrismaAcceptsDate(d) == d.valid

\* ------------------------------------------------------------ requests
\* A call is idle, in flight (pc names the await it is suspended at) or done
\* (status and body fields hold the response).
IdleCall ==
    [op |-> "none", pc |-> "idle", status |-> 0, user |-> "", id |-> 0,
     location |-> NoLocation, startDate |-> AbsentStr, endDate |-> AbsentStr,
     maxAttendees |-> 0,
     excludeEventId |-> {}, event |-> {}, existing |-> "none", regId |-> 0,
     error |-> "", available |-> "none", conflict |-> {},
     wstart |-> InvalidDate, wend |-> InvalidDate, bookedSlots |-> <<>>,
     queries |-> 0, caller |-> "", statusFilter |-> "", found |-> <<>>]

Idle(c) == calls[c].pc = "idle"

\* res.status(code).json(...); return
Respond(call, code) == [call EXCEPT !.pc = "done", !.status = code]

\* An error answer of a handler carries only its message: { error: '...' }
Fail(call, code) ==
    [IdleCall EXCEPT !.op = call.op, !.pc = "done", !.status = code,
                     !.queries = call.queries]

\* An error answer to a request on one event: the :id parameter and the
\* authenticated user remain those of the request.
FailFor(call, code) ==
    [Fail(call, code) EXCEPT !.id = call.id, !.user = call.user]

\* the connection is closed after the response has been sent
Close(c) ==
    /\ calls[c].pc = "done"
    /\ calls' = [calls EXCEPT ![c] = IdleCall]
    /\ UNCHANGED <<events, nextId, registrations, nextRegId>>

\* ------------------------------------------------------ checkAvailability
checkAvailability(c, location, startDate, endDate, excludeEventId) ==
    LET req == [IdleCall EXCEPT !.op = "checkAvailability", !.location = location,
                                !.startDate = startDate, !.endDate = endDate,
                                !.excludeEventId = excludeEventId]
        start == NewDate(startDate)
        end == NewDate(endDate)
    IN  /\ Idle(c)
        /\ UNCHANGED <<events, nextId, registrations, nextRegId>>
        /\ IF location = NoLocation \/ ~Truthy(startDate) \/ ~Truthy(endDate)
           THEN calls' = [calls EXCEPT ![c] = Respond(req, 400)]
           ELSE IF DateGe(start, end)
           THEN calls' = [calls EXCEPT ![c] = Respond(req, 400)]
           ELSE IF ~(PrismaAcceptsDate(start) /\ PrismaAcceptsDate(end))
           THEN \* findFirst throws, caught by the handler's catch block
                calls' = [calls EXCEPT ![c] = Respond([req EXCEPT !.queries = 1], 500)]
           ELSE \E r \in checkEventConflict(events, location, start.time, end.time,
                                            excludeEventId) :
                  calls' = [calls EXCEPT ![c] =
                      Respond([req EXCEPT !.queries = 1,
                                 !.available = IF r.hasConflict THEN "false" ELSE "true",
                                 !.conflict = r.conflictingEvent], 200)]

\* ------------------------------------------------------- getVenueSchedule
\* (variant: lt in place of lte on the end of the range)
StartsWithinRange_Lt(x, start, end) == x.startDate >= start /\ x.startDate < end

\* OR[0]: event starts within range
StartsWithinRange(x, start, end) == x.startDate >= start /\ x.startDate <= end
\* (variant: gt in place of gte on the start of the range)
EndsWithinRange_Gt(x, start, end) == x.endDate > start /\ x.endDate <= end

\* OR[1]: event ends within range
EndsWithinRange(x, start, end) == x.endDate >= start /\ x.endDate <= end
\* OR[2]: event spans the entire range
SpansRange(x, start, end) == x.startDate <= start /\ x.endDate >= end

ScheduleWhere(x, location, start, end) ==
    /\ x.location = location
    /\ x.status \in ActiveStatuses
    /\ \/ StartsWithinRange(x, start, end)
       \/ EndsWithinRange(x, start, end)
       \/ SpansRange(x, start, end)

\* (variant: no orderBy, rows come in any order)
OrderByStartDateAsc_Unordered(S) ==
    {q \in [1..Cardinality(S) -> S] :
        \A i, j \in 1..Cardinality(S) : i # j => q[i] # q[j]}

\* orderBy startDate asc: every ordering of S with ascending startDate
\* (rows with equal startDate come in no particular order)
OrderByStartDateAsc(S) ==
    {q \in [1..Cardinality(S) -> S] :
        /\ \A i, j \in 1..Cardinality(S) : i # j => q[i] # q[j]
        /\ \A i, j \in 1..Cardinality(S) : i < j => q[i].startDate <= q[j].startDate}

BookedSlot(x) == [id |-> x.id, start |-> x.startDate, end |-> x.endDate,
                  status |-> x.status]

\* the window of the schedule: start defaults to now (new Date(), any current
\* time), end to start + 7 days
ScheduleStart(startDate) ==
    IF Truthy(startDate) THEN {NewDate(startDate)} ELSE {DateOf(now) : now \in Times}
\* (variant: the default end is the start itself, without the 7 days)
ScheduleEnd_NoWeek(endDate, start) ==
    IF Truthy(endDate) THEN NewDate(endDate) ELSE start

ScheduleEnd(endDate, start) ==
    IF Truthy(endDate) THEN NewDate(endDate)
    ELSE IF start.valid THEN DateOf(start.time + SevenDays) ELSE InvalidDate

getVenueSchedule(c, location, startDate, endDate) ==
  /\ Idle(c)
  /\ UNCHANGED <<events, nextId, registrations, nextRegId>>
  /\ \E start \in ScheduleStart(startDate) :
    LET req == [IdleCall EXCEPT !.op = "getVenueSchedule", !.location = location,
                                !.startDate = startDate, !.endDate = endDate]
        end == ScheduleEnd(endDate, start)
    IN  /\ IF location = NoLocation
           THEN calls' = [calls EXCEPT ![c] = Respond(req, 400)]
           ELSE IF ~(PrismaAcceptsDate(start) /\ PrismaAcceptsDate(end))
           THEN calls' = [calls EXCEPT ![c] = Respond([req EXCEPT !.queries = 1], 500)]
           ELSE \E rows \in OrderByStartDateAsc(
                    {x \in events : ScheduleWhere(x, location, start.time, end.time)}) :
                  calls' = [calls EXCEPT ![c] =
                      Respond([req EXCEPT !.queries = 1, !.wstart = start, !.wend = end,
                                 !.bookedSlots = [i \in DOMAIN rows |-> BookedSlot(rows[i])]],
                              200)]

\* --------------------------------------------------------------- getEvents
\* req.user when no authenticate middleware has run: undefined
NoUser == ""
\* the role stored for a seeded user
RoleOfUser(u) == IF u \in Students THEN "STUDENT" ELSE Role(u)
\* who may send GET /api/events: any user of the system or an anonymous client
Callers == Students \cup Organizers \cup Admins \cup {NoUser}
\* the ?status= query string: absent (""), a status, or another word
NoStatus == ""
StatusInputs == {NoStatus, "BOGUS"} \cup EventStatus
\* the ?upcoming= query string is 'true' or something else
UpcomingInputs == {TRUE, FALSE}

\* router.get('/', getEvents): a public route, no middleware sets req.user
PublicRoute(caller) == NoUser

\* where.status: the filter when given, APPROVED for a STUDENT req.user,
\* otherwise no condition on status
GetEventsStatusWhere(x, user, status) ==
    IF status # NoStatus THEN x.status = status
    ELSE IF user # NoUser /\ RoleOfUser(user) = "STUDENT" THEN x.status = "APPROVED"
    ELSE TRUE

\* where.startDate = { gte: new Date() } when upcoming === 'true'
GetEventsUpcomingWhere(x, upcoming, now) == upcoming => x.startDate >= now

\* getEvents, for a request sent by caller on which req.user is user.
\* (category and search filter on columns the rows here do not carry and
\* are taken as absent.)  A status that is not an EventStatus makes the
\* query throw.
getEvents(c, caller, user, status, upcoming) ==
  /\ Idle(c)
  /\ UNCHANGED <<events, nextId, registrations, nextRegId>>
  /\ \E now \in Times :
    LET req == [IdleCall EXCEPT !.op = "getEvents", !.caller = caller,
                                !.user = user, !.statusFilter = status,
                                !.queries = 1]
    IN  IF status # NoStatus /\ status \notin EventStatus
        THEN calls' = [calls EXCEPT ![c] = Respond(req, 500)]
        ELSE \E rows \in OrderByStartDateAsc(
                 {x \in events : /\ GetEventsStatusWhere(x, user, status)
                                 /\ GetEventsUpcomingWhere(x, upcoming, now)}) :
               calls' = [calls EXCEPT ![c] = Respond([req EXCEPT !.found = rows], 200)]

\* ------------------------------------------------------------ createEvent
\* createEventValidation, for the fields the handlers below read
\* (title, description, category and tags are taken as valid)
createEventValidation(location, startDate, endDate, maxAttendees) ==
    /\ location # NoLocation /\ isISO8601(startDate) /\ isISO8601(endDate)
    /\ maxAttendees >= 1

\* creations in flight between the conflict check and the insert
PendingCreates == {d \in DOMAIN calls : calls[d].pc = "create"}
\* at most MaxEvents events are ever created
CanCreate == nextId + Cardinality(PendingCreates) <= MaxEvents

\* Entry of createEvent up to its first await: validation, date checks
\* (new Date() is any current time) and the conflict query.
createEvent(c, user, location, startDate, endDate, maxAttendees) ==
    LET req == [IdleCall EXCEPT !.op = "createEvent", !.user = user,
                                !.location = location,
                                !.startDate = startDate, !.endDate = endDate,
                                !.maxAttendees = maxAttendees]
        start == NewDate(startDate)
        end == NewDate(endDate)
    IN  /\ Idle(c)
        /\ UNCHANGED <<events, nextId, registrations, nextRegId>>
        /\ IF ~createEventValidation(location, startDate, endDate, maxAttendees)
           THEN calls' = [calls EXCEPT ![c] = Fail(req, 400)]
           ELSE IF DateGe(start, end)
           THEN calls' = [calls EXCEPT ![c] = Fail(req, 400)]
           ELSE \E now \in Times :
                IF DateLt(start, DateOf(now))
                THEN calls' = [calls EXCEPT ![c] = Fail(req, 400)]
                ELSE IF ~(PrismaAcceptsDate(start) /\ PrismaAcceptsDate(end))
                THEN calls' = [calls EXCEPT ![c] =
                         Fail([req EXCEPT !.queries = 1], 500)]
                ELSE \E r \in checkEventConflict(events, location, start.time,
                                                 end.time, {}) :
                       /\ r.hasConflict \/ CanCreate
                       /\ calls' = [calls EXCEPT ![c] =
                           IF r.hasConflict
                           THEN Respond([req EXCEPT !.queries = 1, !.user = "",
                                           !.conflict = r.conflictingEvent], 409)
                           ELSE [req EXCEPT !.queries = 1, !.pc = "create"]]

\* prisma.event.create and the 201 response
createEventWrite(c) ==
    /\ calls[c].pc = "create"
    /\ events' = events \cup
          {[id |-> nextId, location |-> calls[c].location,
            startDate |-> NewDate(calls[c].startDate).time,
            endDate |-> NewDate(calls[c].endDate).time,
            status |-> "PENDING", createdById |-> calls[c].user,
            maxAttendees |-> calls[c].maxAttendees, currentAttendees |-> 0]}
    /\ nextId' = nextId + 1
    /\ UNCHANGED <<registrations, nextRegId>>
    /\ calls' = [calls EXCEPT ![c] =
          Respond([calls[c] EXCEPT !.id = nextId, !.user = "", !.queries = @ + 1], 201)]

\* ------------------------------------------------------------ updateEvent
\* const newLocation = location || event.location, and likewise the dates
NewLocation(location, event) == IF location # NoLocation THEN location ELSE event.location
NewStartDate(startDate, event) ==
    IF Truthy(startDate) THEN NewDate(startDate) ELSE DateOf(event.startDate)
NewEndDate(endDate, event) ==
    IF Truthy(endDate) THEN NewDate(endDate) ELSE DateOf(event.endDate)

\* if (location || startDate || endDate)
TouchesSlot(location, startDate, endDate) ==
    location # NoLocation \/ Truthy(startDate) \/ Truthy(endDate)

\* Entry of updateEvent: findUnique, the 404 and 403 answers and the date
\* validation on the merged values, up to the next await.
updateEvent(c, user, id, location, startDate, endDate, maxAttendees) ==
    LET req == [IdleCall EXCEPT !.op = "updateEvent", !.user = user,
                                !.id = id,
                                !.location = location,
                                !.startDate = startDate, !.endDate = endDate,
                                !.maxAttendees = maxAttendees,
                                !.queries = 1]
        found == {x \in events : x.id = id}
    IN  /\ Idle(c)
        /\ UNCHANGED <<events, nextId, registrations, nextRegId>>
        /\ IF found = {}
           THEN calls' = [calls EXCEPT ![c] = FailFor(req, 404)]
           ELSE LET event == CHOOSE x \in found : TRUE
                IN  IF NotOwnerNorAdmin(event, user)
                    THEN calls' = [calls EXCEPT ![c] = FailFor(req, 403)]
                    ELSE IF ~TouchesSlot(location, startDate, endDate)
                    THEN calls' = [calls EXCEPT ![c] = [req EXCEPT !.pc = "update"]]
                    ELSE IF DateGe(NewStartDate(startDate, event),
                                   NewEndDate(endDate, event))
                    THEN calls' = [calls EXCEPT ![c] = FailFor(req, 400)]
                    ELSE calls' = [calls EXCEPT ![c] =
                             [req EXCEPT !.pc = "update_check", !.event = {event}]]

\* (variant: the conflict check looks at the venue the event has now, not
\* at the one requested)
updateEventCheck_OldLocation(c) ==
    /\ calls[c].pc = "update_check"
    /\ UNCHANGED <<events, nextId, registrations, nextRegId>>
    /\ LET call == [calls[c] EXCEPT !.queries = @ + 1]
           event == CHOOSE x \in call.event : TRUE
           newLocation == event.location
           newStartDate == NewStartDate(call.startDate, event)
           newEndDate == NewEndDate(call.endDate, event)
       IN  IF ~(PrismaAcceptsDate(newStartDate) /\ PrismaAcceptsDate(newEndDate))
           THEN calls' = [calls EXCEPT ![c] = Fail(call, 500)]
           ELSE \E r \in checkEventConflict(events, newLocation, newStartDate.time,
                                            newEndDate.time, {call.id}) :
                  calls' = [calls EXCEPT ![c] =
                      IF r.hasConflict
                      THEN Respond([call EXCEPT !.user = "",
                                      !.conflict = r.conflictingEvent], 409)
                      ELSE [call EXCEPT !.pc = "update"]]

\* The conflict query of updateEvent, on the values merged from the event
\* as it was read by findUnique, with the event itself excluded.
updateEventCheck(c) ==
    /\ calls[c].pc = "update_check"
    /\ UNCHANGED <<events, nextId, registrations, nextRegId>>
    /\ LET call == [calls[c] EXCEPT !.queries = @ + 1]
           event == CHOOSE x \in call.event : TRUE
           newLocation == NewLocation(call.location, event)
           newStartDate == NewStartDate(call.startDate, event)
           newEndDate == NewEndDate(call.endDate, event)
       IN  IF ~(PrismaAcceptsDate(newStartDate) /\ PrismaAcceptsDate(newEndDate))
           THEN calls' = [calls EXCEPT ![c] = Fail(call, 500)]
           ELSE \E r \in checkEventConflict(events, newLocation, newStartDate.time,
                                            newEndDate.time, {call.id}) :
                  calls' = [calls EXCEPT ![c] =
                      IF r.hasConflict
                      THEN Respond([call EXCEPT !.user = "",
                                      !.conflict = r.conflictingEvent], 409)
                      ELSE [call EXCEPT !.pc = "update"]]

\* data of prisma.event.update: only the supplied fields are written
UpdateData(x, location, startDate, endDate, maxAttendees) ==
    [x EXCEPT !.location = IF location # NoLocation THEN location ELSE @,
              !.startDate = IF Truthy(startDate) THEN NewDate(startDate).time ELSE @,
              !.endDate = IF Truthy(endDate) THEN NewDate(endDate).time ELSE @,
              !.maxAttendees = IF maxAttendees # 0 THEN maxAttendees ELSE @]

\* prisma.event.update and the 200 response (the update throws when the
\* row no longer exists or a supplied date is invalid)
updateEventWrite(c) ==
    /\ calls[c].pc = "update"
    /\ UNCHANGED <<nextId, registrations, nextRegId>>
    /\ LET call == [calls[c] EXCEPT !.queries = @ + 1]
           found == {x \in events : x.id = call.id}
       IN  IF \/ found = {}
              \/ Truthy(call.startDate) /\ ~PrismaAcceptsDate(NewDate(call.startDate))
              \/ Truthy(call.endDate) /\ ~PrismaAcceptsDate(NewDate(call.endDate))
           THEN /\ calls' = [calls EXCEPT ![c] = Fail(call, 500)]
                /\ UNCHANGED events
           ELSE /\ events' = {IF x.id = call.id
                              THEN UpdateData(x, call.location, call.startDate,
                                              call.endDate, call.maxAttendees)
                              ELSE x : x \in events}
                /\ calls' = [calls EXCEPT ![c] =
                                 Respond([call EXCEPT !.user = ""], 200)]

\* ------------------------------------------------------------ deleteEvent
\* Entry of deleteEvent: findUnique and the 404 and 403 answers
deleteEvent(c, user, id) ==
    LET req == [IdleCall EXCEPT !.op = "deleteEvent", !.user = user, !.id = id,
                                !.queries = 1]
        found == {x \in events : x.id = id}
    IN  /\ Idle(c)
        /\ UNCHANGED <<events, nextId, registrations, nextRegId>>
        /\ IF found = {}
           THEN calls' = [calls EXCEPT ![c] = FailFor(req, 404)]
           ELSE IF \E x \in found : NotOwnerNorAdmin(x, user)
           THEN calls' = [calls EXCEPT ![c] = FailFor(req, 403)]
           ELSE calls' = [calls EXCEPT ![c] = [req EXCEPT !.pc = "delete"]]

\* prisma.event.delete and the 200 response.  The delete throws when the row
\* is gone; when registrations refer to the event, the foreign key either
\* deletes them with it or makes the delete throw.
deleteEventWrite(c) ==
    /\ calls[c].pc = "delete"
    /\ UNCHANGED <<nextId, nextRegId>>
    /\ LET call == [calls[c] EXCEPT !.queries = @ + 1, !.user = ""]
           found == {x \in events : x.id = call.id}
           referring == {g \in registrations : g.eventId = call.id}
       IN  \/ /\ found = {} \/ referring # {}
              /\ calls' = [calls EXCEPT ![c] = Fail(call, 500)]
              /\ UNCHANGED <<events, registrations>>
           \/ /\ found # {}
              /\ events' = events \ found
              /\ registrations' = registrations \ referring
              /\ calls' = [calls EXCEPT ![c] = Respond(call, 200)]

\* ------------------- createEvent / updateEvent of src/controllers
\* The copy of the event controller under src/controllers has no venue
\* conflict check: createEvent validates and inserts in one step.
createEventUnchecked(c, user, location, startDate, endDate, maxAttendees) ==
    LET req == [IdleCall EXCEPT !.op = "createEvent", !.location = location,
                                !.startDate = startDate, !.endDate = endDate,
                                !.maxAttendees = maxAttendees]
        start == NewDate(startDate)
        end == NewDate(endDate)
    IN  /\ Idle(c)
        /\ IF ~createEventValidation(location, startDate, endDate, maxAttendees)
           THEN /\ calls' = [calls EXCEPT ![c] = Fail(req, 400)]
                /\ UNCHANGED <<events, nextId, registrations, nextRegId>>
           ELSE IF DateGe(start, end)
           THEN /\ calls' = [calls EXCEPT ![c] = Fail(req, 400)]
                /\ UNCHANGED <<events, nextId, registrations, nextRegId>>
           ELSE \E now \in Times :
                IF DateLt(start, DateOf(now))
                THEN /\ calls' = [calls EXCEPT ![c] = Fail(req, 400)]
                     /\ UNCHANGED <<events, nextId, registrations, nextRegId>>
                ELSE IF ~(PrismaAcceptsDate(start) /\ PrismaAcceptsDate(end))
                THEN /\ calls' = [calls EXCEPT ![c] =
                            Fail([req EXCEPT !.queries = 1], 500)]
                     /\ UNCHANGED <<events, nextId, registrations, nextRegId>>
                ELSE /\ CanCreate
                     /\ events' = events \cup
                           {[id |-> nextId, location |-> location,
                             startDate |-> start.time, endDate |-> end.time,
                             status |-> "PENDING", createdById |-> user,
                             maxAttendees |-> maxAttendees,
                             currentAttendees |-> 0]}
                     /\ nextId' = nextId + 1
                     /\ UNCHANGED <<registrations, nextRegId>>
                     /\ calls' = [calls EXCEPT ![c] =
                           Respond([req EXCEPT !.id = nextId, !.queries = 1], 201)]

\* updateEvent there: findUnique, 404, 403, then straight to the update
updateEventUnchecked(c, user, id, location, startDate, endDate, maxAttendees) ==
    LET req == [IdleCall EXCEPT !.op = "updateEvent", !.id = id,
                                !.location = location,
                                !.startDate = startDate, !.endDate = endDate,
                                !.maxAttendees = maxAttendees,
                                !.queries = 1]
        found == {x \in events : x.id = id}
    IN  /\ Idle(c)
        /\ UNCHANGED <<events, nextId, registrations, nextRegId>>
        /\ IF found = {}
           THEN calls' = [calls EXCEPT ![c] = Fail(req, 404)]
           ELSE IF \E x \in found : NotOwnerNorAdmin(x, user)
           THEN calls' = [calls EXCEPT ![c] = Fail(req, 403)]
           ELSE calls' = [calls EXCEPT ![c] = [req EXCEPT !.pc = "update"]]

\* ------------------------------------------------------ registerForEvent
RegistrationStatus == {"REGISTERED", "CANCELLED"}

\* _count.registrations where status = REGISTERED
RegisteredCount(eventId) ==
    Cardinality({g \in registrations :
                   g.eventId = eventId /\ g.status = "REGISTERED"})

\* findUnique({ where: { userId_eventId: { userId, eventId } } })
RegistrationOf(userId, eventId) ==
    {g \in registrations : g.userId = userId /\ g.eventId = eventId}

\* an error answer of the registration handlers, with its message
RegFail(call, code, error) ==
    [FailFor(call, code) EXCEPT !.error = error, !.existing = call.existing]

\* Entry of registerForEvent: the event lookup with its count of REGISTERED
\* registrations, and the checks on it (new Date() is any current time).
registerForEvent(c, user, eventId) ==
    LET req == [IdleCall EXCEPT !.op = "registerForEvent", !.user = user,
                                !.id = eventId, !.queries = 1]
        found == {x \in events : x.id = eventId}
    IN  /\ Idle(c)
        /\ UNCHANGED <<events, nextId, registrations, nextRegId>>
        /\ IF found = {}
           THEN calls' = [calls EXCEPT ![c] = RegFail(req, 404, "Event not found")]
           ELSE LET event == CHOOSE x \in found : TRUE IN
                IF event.status # "APPROVED"
                THEN calls' = [calls EXCEPT ![c] =
                                 RegFail(req, 400, "Event is not approved yet")]
                ELSE \E now \in Times :
                     IF event.startDate < now
                     THEN calls' = [calls EXCEPT ![c] =
                              RegFail(req, 400, "Cannot register for past events")]
                     ELSE IF RegisteredCount(eventId) >= event.maxAttendees
                     THEN calls' = [calls EXCEPT ![c] =
                              RegFail(req, 400, "Event is full")]
                     ELSE calls' = [calls EXCEPT ![c] =
                              [req EXCEPT !.pc = "register_find"]]

\* (variant: the check for an existing registration is missing)
registerFind_NoCheck(c) ==
    /\ calls[c].pc = "register_find"
    /\ UNCHANGED <<events, nextId, registrations, nextRegId>>
    /\ calls' = [calls EXCEPT ![c] =
          [calls[c] EXCEPT !.queries = @ + 1, !.pc = "register_create"]]

\* the lookup of the user's registration for the event
registerFind(c) ==
    /\ calls[c].pc = "register_find"
    /\ UNCHANGED <<events, nextId, registrations, nextRegId>>
    /\ LET call == [calls[c] EXCEPT !.queries = @ + 1]
           existingRegistration == RegistrationOf(call.user, call.id)
       IN  IF existingRegistration = {}
           THEN calls' = [calls EXCEPT ![c] = [call EXCEPT !.pc = "register_create"]]
           ELSE \E g \in existingRegistration :
                  IF g.status = "REGISTERED"
                  THEN calls' = [calls EXCEPT ![c] =
                         RegFail([call EXCEPT !.existing = g.status], 400,
                                 "You are already registered for this event")]
                  ELSE calls' = [calls EXCEPT ![c] =
                         [call EXCEPT !.existing = g.status,
                                      !.pc = "register_create"]]

\* prisma.registration.create: the (userId, eventId) key is unique, and the
\* event must exist; otherwise the create throws (500)
registerCreate(c) ==
    /\ calls[c].pc = "register_create"
    /\ UNCHANGED <<events, nextId>>
    /\ LET call == [calls[c] EXCEPT !.queries = @ + 1] IN
       IF \/ RegistrationOf(call.user, call.id) # {}
          \/ \A x \in events : x.id # call.id
       THEN /\ calls' = [calls EXCEPT ![c] =
                   RegFail(call, 500, "Failed to register for event")]
            /\ UNCHANGED <<registrations, nextRegId>>
       ELSE /\ registrations' = registrations \cup
                   {[id |-> nextRegId, userId |-> call.user, eventId |-> call.id,
                     status |-> "REGISTERED", qrCode |-> ""]}
            /\ nextRegId' = nextRegId + 1
            /\ calls' = [calls EXCEPT ![c] =
                   [call EXCEPT !.regId = nextRegId, !.pc = "register_qr"]]

\* prisma.registration.update({ data: { qrCode } })
registerQrCode(c) ==
    /\ calls[c].pc = "register_qr"
    /\ UNCHANGED <<events, nextId, nextRegId>>
    /\ LET call == [calls[c] EXCEPT !.queries = @ + 1] IN
       IF \A g \in registrations : g.id # call.regId
       THEN /\ calls' = [calls EXCEPT ![c] =
                   RegFail(call, 500, "Failed to register for event")]
            /\ UNCHANGED registrations
       ELSE /\ registrations' = {IF g.id = call.regId
                                 THEN [g EXCEPT !.qrCode = "REG"] ELSE g :
                                 g \in registrations}
            /\ calls' = [calls EXCEPT ![c] = [call EXCEPT !.pc = "register_count"]]

\* prisma.event.update({ data: { currentAttendees: { increment: 1 } } })
\* and the 201 response
registerCount(c) ==
    /\ calls[c].pc = "register_count"
    /\ UNCHANGED <<nextId, registrations, nextRegId>>
    /\ LET call == [calls[c] EXCEPT !.queries = @ + 1] IN
       IF \A x \in events : x.id # call.id
       THEN /\ calls' = [calls EXCEPT ![c] =
                   RegFail(call, 500, "Failed to register for event")]
            /\ UNCHANGED events
       ELSE /\ events' = {IF x.id = call.id
                          THEN [x EXCEPT !.currentAttendees = @ + 1] ELSE x :
                          x \in events}
            /\ calls' = [calls EXCEPT ![c] = Respond(call, 201)]

\* ---------------------------------------------------- cancelRegistration
\* Entry of cancelRegistration: the lookup of the registration with its event
cancelRegistration(c, user, eventId) ==
    LET req == [IdleCall EXCEPT !.op = "cancelRegistration", !.user = user,
                                !.id = eventId, !.queries = 1]
        found == RegistrationOf(user, eventId)
    IN  /\ Idle(c)
        /\ UNCHANGED <<events, nextId, registrations, nextRegId>>
        /\ IF found = {}
           THEN calls' = [calls EXCEPT ![c] =
                            RegFail(req, 404, "Registration not found")]
           ELSE \E registration \in found :
                IF registration.status # "REGISTERED"
                THEN calls' = [calls EXCEPT ![c] =
                         RegFail(req, 400, "Registration is already cancelled")]
                ELSE \E now \in Times :
                     IF \E x \in events : x.id = eventId /\ x.startDate < now
                     THEN calls' = [calls EXCEPT ![c] =
                              RegFail(req, 400, "Cannot cancel registration for ongoing or past events")]
                     ELSE calls' = [calls EXCEPT ![c] =
                              [req EXCEPT !.regId = registration.id,
                                          !.pc = "cancel_update"]]

\* prisma.registration.update({ data: { status: CANCELLED } })
cancelUpdate(c) ==
    /\ calls[c].pc = "cancel_update"
    /\ UNCHANGED <<events, nextId, nextRegId>>
    /\ LET call == [calls[c] EXCEPT !.queries = @ + 1] IN
       IF \A g \in registrations : g.id # call.regId
       THEN /\ calls' = [calls EXCEPT ![c] =
                   RegFail(call, 500, "Failed to cancel registration")]
            /\ UNCHANGED registrations
       ELSE /\ registrations' = {IF g.id = call.regId
                                 THEN [g EXCEPT !.status = "CANCELLED"] ELSE g :
                                 g \in registrations}
            /\ calls' = [calls EXCEPT ![c] = [call EXCEPT !.pc = "cancel_count"]]

\* prisma.event.update({ data: { currentAttendees: { decrement: 1 } } })
\* and the 200 response
cancelCount(c) ==
    /\ calls[c].pc = "cancel_count"
    /\ UNCHANGED <<nextId, registrations, nextRegId>>
    /\ LET call == [calls[c] EXCEPT !.queries = @ + 1] IN
       IF \A x \in events : x.id # call.id
       THEN /\ calls' = [calls EXCEPT ![c] =
                   RegFail(call, 500, "Failed to cancel registration")]
            /\ UNCHANGED events
       ELSE /\ events' = {IF x.id = call.id
                          THEN [x EXCEPT !.currentAttendees = @ - 1] ELSE x :
                          x \in events}
            /\ calls' = [calls EXCEPT ![c] = Respond(call, 200)]

\* ------------------------------------------- approveEvent / rejectEvent
\* findUnique, 404, and 400 unless the event is PENDING
approveEvent(c, user, id) ==
    LET req == [IdleCall EXCEPT !.op = "approveEvent", !.id = id,
                                !.queries = 1]
        found == {x \in events : x.id = id}
    IN  /\ Idle(c)
        /\ UNCHANGED <<events, nextId, registrations, nextRegId>>
        /\ IF found = {}
           THEN calls' = [calls EXCEPT ![c] = FailFor(req, 404)]
           ELSE IF \E x \in found : x.status # "PENDING"
           THEN calls' = [calls EXCEPT ![c] = FailFor(req, 400)]
           ELSE calls' = [calls EXCEPT ![c] = [req EXCEPT !.pc = "approve"]]

rejectEvent(c, user, id) ==
    LET req == [IdleCall EXCEPT !.op = "rejectEvent", !.id = id,
                                !.queries = 1]
        found == {x \in events : x.id = id}
    IN  /\ Idle(c)
        /\ UNCHANGED <<events, nextId, registrations, nextRegId>>
        /\ IF found = {}
           THEN calls' = [calls EXCEPT ![c] = FailFor(req, 404)]
           ELSE IF \E x \in found : x.status # "PENDING"
           THEN calls' = [calls EXCEPT ![c] = FailFor(req, 400)]
           ELSE calls' = [calls EXCEPT ![c] = [req EXCEPT !.pc = "reject"]]

\* prisma.event.update({ data: { status } }) of approveEvent / rejectEvent
SetStatus(c, status) ==
    /\ UNCHANGED <<nextId, registrations, nextRegId>>
    /\ LET call == [calls[c] EXCEPT !.queries = @ + 1]
       IN  IF \A x \in events : x.id # call.id
           THEN /\ calls' = [calls EXCEPT ![c] = Fail(call, 500)]
                /\ UNCHANGED events
           ELSE /\ events' = {IF x.id = call.id THEN [x EXCEPT !.status = status]
                              ELSE x : x \in events}
                /\ calls' = [calls EXCEPT ![c] = Respond(call, 200)]

approveEventWrite(c) == calls[c].pc = "approve" /\ SetStatus(c, "APPROVED")

rejectEventWrite(c) == calls[c].pc = "reject" /\ SetStatus(c, "REJECTED")

\* --------------------------------------------- specification: queries
\* Any store of at most n events with startDate < endDate and maxAttendees
\* among caps, nobody registered yet.
StoresOf(n, caps) ==
    UNION {{ {[id |-> i, location |-> f[i].location, startDate |-> f[i].startDate,
               endDate |-> f[i].endDate, status |-> f[i].status,
               createdById |-> "org1", maxAttendees |-> f[i].maxAttendees,
               currentAttendees |-> 0] : i \in 1..k} :
             f \in [1..k -> {r \in [location : Locations, startDate : Times,
                                   endDate : Times, status : EventStatus,
                                   maxAttendees : caps] :
                               r.startDate < r.endDate}]} :
           k \in 0..n}

\* the stores the venue specifications start from (rooms of one size)
SeedStores == StoresOf(MaxSeed, {MaxAttendees})

InitQuery ==
    /\ events \in SeedStores
    /\ nextId = Cardinality(events) + 1
    /\ registrations = {} /\ nextRegId = 1
    /\ calls = [c \in {1} |-> IdleCall]

NextQuery ==
    \/ /\ Idle(1)
       /\ \E location \in LocationInputs, startDate \in DateInputs,
             endDate \in DateInputs, excludeEventId \in ExcludeInputs :
             checkAvailability(1, location, startDate, endDate, excludeEventId)
    \/ /\ Idle(1)
       /\ \E location \in LocationInputs, startDate \in DateInputs,
             endDate \in DateInputs :
             getVenueSchedule(1, location, startDate, endDate)
    \/ Close(1)

SpecQuery == InitQuery /\ [][NextQuery]_vars

\* ------------------------------------------------------------ properties
\* every stored event has startDate < endDate
ValidStore == \A x \in events : x.startDate < x.endDate

\* half-open intervals [x.startDate, x.endDate) and [s, e) overlap
Overlaps(x, s, e) == x.startDate < e /\ s < x.endDate

\* x occupies venue L: it is there and is PENDING or APPROVED
Occupies(x, L) == x.location = L /\ x.status \in {"PENDING", "APPROVED"}

\* a completed availability check (the query ran and was answered)
AnsweredAvailability(r) ==
    r.op = "checkAvailability" /\ r.pc = "done" /\ r.status = 200

\* C1: on a store whose events all have startDate < endDate, a conflict
\* check for (L, s, e) with s < e and nothing excluded reports a conflict
\* exactly when some PENDING/APPROVED event at L overlaps [s, e) as a
\* half-open interval.
C1_ConflictIffOverlap ==
    \A c \in DOMAIN calls :
       LET r == calls[c] IN
       (AnsweredAvailability(r) /\ r.excludeEventId = {} /\ ValidStore)
       => ((r.available = "false") <=>
           \E x \in events : Occupies(x, r.location)
                             /\ Overlaps(x, r.startDate.t, r.endDate.t))

\* a conflict was reported for an interval that strictly contains the
\* existing event (only the third case of the query matches it)
C1_Witness ==
    \E c \in DOMAIN calls :
       LET r == calls[c] IN
       /\ AnsweredAvailability(r) /\ r.excludeEventId = {} /\ r.available = "false"
       /\ \E x \in events : /\ r.conflict = {x.id}
                            /\ r.startDate.t < x.startDate
                            /\ x.endDate < r.endDate.t

\* C2: when exactly one PENDING/APPROVED event is at venue L, a check for an
\* interval that starts exactly at its end, or ends exactly at its start,
\* reports no conflict.
C2_BackToBackNoConflict ==
    \A c \in DOMAIN calls :
       LET r == calls[c]
           atL == {x \in events : Occupies(x, r.location)}
       IN  (AnsweredAvailability(r) /\ r.excludeEventId = {} /\ ValidStore
            /\ Cardinality(atL) = 1
            /\ \E x \in atL : x.endDate = r.startDate.t \/ r.endDate.t = x.startDate)
           => (r.available = "true" /\ r.conflict = {})

\* a check for the slot right after the only booking of the venue was answered
C2_Witness ==
    \E c \in DOMAIN calls :
       LET r == calls[c]
           atL == {x \in events : Occupies(x, r.location)}
       IN  /\ AnsweredAvailability(r) /\ r.excludeEventId = {}
           /\ Cardinality(atL) = 1
           /\ \E x \in atL : x.endDate = r.startDate.t
           /\ r.available = "true"

\* C8: an availability request whose dates both parse and have
\* startDate >= endDate is answered 400 and runs no store query.
C8_StartNotBeforeEndRejected ==
    \A c \in DOMAIN calls :
       LET r == calls[c] IN
       (r.op = "checkAvailability" /\ r.pc = "done"
        /\ r.startDate.kind = "iso" /\ r.endDate.kind = "iso"
        /\ r.startDate.t >= r.endDate.t)
       => (r.status = 400 /\ r.queries = 0)

\* such a request, with a location, for an empty interval (start = end)
C8_Witness ==
    \E c \in DOMAIN calls :
       LET r == calls[c] IN
       /\ r.op = "checkAvailability" /\ r.pc = "done" /\ r.location # NoLocation
       /\ r.startDate.kind = "iso" /\ r.endDate.kind = "iso"
       /\ r.startDate.t = r.endDate.t
       /\ r.status = 400

\* C9: every availability request ends either in a 400 issued before any
\* store query, or in a completed check with a boolean answer; a request
\* with a date string that does not parse runs no query and is never
\* answered 500.
C9_ValidationOrAnswer ==
    \A c \in DOMAIN calls :
       LET r == calls[c] IN
       (r.op = "checkAvailability" /\ r.pc = "done")
       => /\ \/ r.status = 400 /\ r.queries = 0
             \/ r.status = 200 /\ r.available \in {"true", "false"}
          /\ ((Truthy(r.startDate) /\ ~NewDate(r.startDate).valid)
              \/ (Truthy(r.endDate) /\ ~NewDate(r.endDate).valid))
             => (r.queries = 0 /\ r.status # 500)

\* C10: for a window start <= end on a store of valid events, bookedSlots
\* holds exactly the PENDING/APPROVED events at the location whose interval
\* meets the closed window, each once.
C10_ScheduleIsClosedIntersection ==
    \A c \in DOMAIN calls :
       LET r == calls[c]
           listed == {r.bookedSlots[i].id : i \in DOMAIN r.bookedSlots}
       IN  (r.op = "getVenueSchedule" /\ r.pc = "done" /\ r.status = 200
            /\ r.wstart.time <= r.wend.time /\ ValidStore)
           => /\ listed = {x.id : x \in {y \in events :
                                /\ Occupies(y, r.location)
                                /\ y.startDate <= r.wend.time
                                /\ y.endDate >= r.wstart.time}}
              /\ Len(r.bookedSlots) = Cardinality(listed)

\* a schedule that lists an event which only touches the window: it ends
\* exactly when the window starts
C10_Witness ==
    \E c \in DOMAIN calls :
       LET r == calls[c] IN
       /\ r.op = "getVenueSchedule" /\ r.pc = "done" /\ r.status = 200
       /\ r.wstart.time < r.wend.time
       /\ \E i \in DOMAIN r.bookedSlots : r.bookedSlots[i].end = r.wstart.time

\* C11: the schedule is at least as inclusive as the conflict check: for a
\* window s < e on a store of valid events, every event matching the conflict
\* predicate for (L, s, e) is listed in bookedSlots, and the listed events
\* that do not match it are exactly the PENDING/APPROVED events at L that
\* only touch the window (endDate = s or startDate = e).
C11_ScheduleIncludesConflicts ==
    \A c \in DOMAIN calls :
       LET r == calls[c]
           s == r.wstart.time
           e == r.wend.time
           listed == {x \in events :
                        \E i \in DOMAIN r.bookedSlots : r.bookedSlots[i].id = x.id}
           conflicting == {x \in events : ConflictWhere(x, r.location, s, e, {})}
       IN  (r.op = "getVenueSchedule" /\ r.pc = "done" /\ r.status = 200
            /\ s < e /\ ValidStore)
           => /\ conflicting \subseteq listed
              /\ listed \ conflicting =
                    {x \in events : /\ Occupies(x, r.location)
                                    /\ (x.endDate = s \/ x.startDate = e)}

\* a schedule for a window s < e lists an event that starts exactly at e,
\* which the conflict predicate for (L, s, e) does not match
C11_Witness ==
    \E c \in DOMAIN calls :
       LET r == calls[c] IN
       /\ r.op = "getVenueSchedule" /\ r.pc = "done" /\ r.status = 200
       /\ r.wstart.time < r.wend.time
       /\ \E x \in events :
             /\ \E i \in DOMAIN r.bookedSlots : r.bookedSlots[i].id = x.id
             /\ x.startDate = r.wend.time
             /\ ~ConflictWhere(x, r.location, r.wstart.time, r.wend.time, {})

\* C13: the default window of the schedule: a start date that is supplied is
\* the start of the window, otherwise the start is the current time; when no
\* end date is supplied the window ends 7 days after its start; and the
\* window echoed in the response is the one the listed events were selected
\* with.
C13_DefaultWindow ==
    \A c \in DOMAIN calls :
       LET r == calls[c]
           listed == {r.bookedSlots[i].id : i \in DOMAIN r.bookedSlots}
       IN  (r.op = "getVenueSchedule" /\ r.pc = "done" /\ r.status = 200)
           => /\ r.wstart.valid /\ r.wend.valid
              /\ r.startDate.kind = "iso" => r.wstart.time = r.startDate.t
              /\ r.startDate.kind = "absent" => r.wstart.time \in Times
              /\ r.endDate.kind = "iso" => r.wend.time = r.endDate.t
              /\ r.endDate.kind = "absent"
                 => /\ r.wend.time = r.wstart.time + SevenDays
                    /\ listed = {x.id : x \in {y \in events :
                                      /\ Occupies(y, r.location)
                                      /\ y.startDate <= r.wend.time
                                      /\ y.endDate >= r.wstart.time}}

\* a schedule asked with a start date only, answered for the 7 days from it,
\* that lists an event which ends on or after that start
C13_Witness ==
    \E c \in DOMAIN calls :
       LET r == calls[c] IN
       /\ r.op = "getVenueSchedule" /\ r.pc = "done" /\ r.status = 200
       /\ r.startDate.kind = "iso" /\ r.endDate.kind = "absent"
       /\ r.wend.time = r.startDate.t + SevenDays
       /\ \E x \in events : Occupies(x, r.location) /\ x.endDate >= r.startDate.t
                            /\ \E i \in DOMAIN r.bookedSlots : r.bookedSlots[i].id = x.id

\* ------------------------------------- specification: one request at a time
\* Requests are served one after the other (a single connection), starting
\* from any seeded store.
\* org1 creates events; org2 (another organizer) and admin1 act on them too
Users == Organizers \cup Admins
Creators == {"org1"}
\* maxAttendees in these requests: missing (0) or the size of the rooms on
\* creation, missing on update
CreateCapacities == {0, MaxAttendees}
UpdateCapacities == {0}

Init ==
    /\ events \in SeedStores
    /\ nextId = Cardinality(events) + 1
    /\ registrations = {} /\ nextRegId = 1
    /\ calls = [c \in {1} |-> IdleCall]

\* a new request is accepted on an idle connection
Arrive_createEvent ==
    \E c \in DOMAIN calls :
       /\ Idle(c)
       /\ \E user \in Creators, location \in LocationInputs,
             startDate \in DateInputs, endDate \in DateInputs,
             maxAttendees \in CreateCapacities :
             createEvent(c, user, location, startDate, endDate, maxAttendees)

Arrive_updateEvent ==
    \E c \in DOMAIN calls :
       /\ Idle(c)
       /\ \E user \in Users, id \in EventIds, location \in LocationInputs,
             startDate \in DateInputs, endDate \in DateInputs,
             maxAttendees \in UpdateCapacities :
             updateEvent(c, user, id, location, startDate, endDate, maxAttendees)

Arrive_approveEvent ==
    \E c \in DOMAIN calls :
       Idle(c) /\ \E user \in Admins, id \in EventIds : approveEvent(c, user, id)

Arrive_rejectEvent ==
    \E c \in DOMAIN calls :
       Idle(c) /\ \E user \in Admins, id \in EventIds : rejectEvent(c, user, id)

Arrive_checkAvailability ==
    \E c \in DOMAIN calls :
       /\ Idle(c)
       /\ \E location \in LocationInputs, startDate \in DateInputs,
             endDate \in DateInputs, excludeEventId \in ExcludeInputs :
             checkAvailability(c, location, startDate, endDate, excludeEventId)

Arrive_deleteEvent ==
    \E c \in DOMAIN calls :
       Idle(c) /\ \E user \in Users, id \in EventIds : deleteEvent(c, user, id)

Arrive_getVenueSchedule ==
    \E c \in DOMAIN calls :
       /\ Idle(c)
       /\ \E location \in LocationInputs, startDate \in DateInputs,
             endDate \in DateInputs :
             getVenueSchedule(c, location, startDate, endDate)

Next ==
    \/ Arrive_checkAvailability
    \/ Arrive_getVenueSchedule
    \/ Arrive_createEvent
    \/ \E c \in DOMAIN calls : createEventWrite(c)
    \/ Arrive_updateEvent
    \/ \E c \in DOMAIN calls : updateEventCheck(c)
    \/ \E c \in DOMAIN calls : updateEventWrite(c)
    \/ Arrive_deleteEvent
    \/ \E c \in DOMAIN calls : deleteEventWrite(c)
    \/ Arrive_approveEvent
    \/ \E c \in DOMAIN calls : approveEventWrite(c)
    \/ Arrive_rejectEvent
    \/ \E c \in DOMAIN calls : rejectEventWrite(c)
    \/ \E c \in DOMAIN calls : Close(c)

Spec == Init /\ [][Next]_vars

\* the slot an update asks for: the supplied values merged with the event
\* as findUnique returned it
Requested(r) ==
    LET event == CHOOSE x \in r.event : TRUE
    IN  [location |-> NewLocation(r.location, event),
         startDate |-> NewStartDate(r.startDate, event).time,
         endDate |-> NewEndDate(r.endDate, event).time]

\* C3: REJECTED and CANCELLED events never produce a conflict: the event
\* named in a conflict is neither; an availability check whose overlapping
\* events at the location are all REJECTED or CANCELLED answers available;
\* and createEvent answers 409 only when some event at the location that is
\* neither REJECTED nor CANCELLED overlaps the slot.
C3_RejectedCancelledNeverConflict ==
    \A c \in DOMAIN calls :
       LET r == calls[c]
           inactive == {"REJECTED", "CANCELLED"}
           s == r.startDate.t
           e == r.endDate.t
       IN  /\ r.pc = "done"
              => \A x \in events : x.id \in r.conflict => x.status \notin inactive
           /\ (AnsweredAvailability(r) /\ r.excludeEventId = {}
               /\ \A x \in events : (x.location = r.location /\ Overlaps(x, s, e))
                                    => x.status \in inactive)
              => r.available = "true"
           /\ (r.pc = "done" /\ r.op = "createEvent" /\ r.status = 409)
              => \E x \in events : /\ x.location = r.location /\ Overlaps(x, s, e)
                                   /\ x.status \notin inactive

\* an event was created (201) in a slot that a REJECTED or CANCELLED event
\* at the same location overlaps
C3_Witness ==
    \E c \in DOMAIN calls :
       LET r == calls[c] IN
       /\ r.pc = "done" /\ r.op = "createEvent" /\ r.status = 201
       /\ \E x \in events : /\ x.id # r.id /\ x.location = r.location
                            /\ Overlaps(x, r.startDate.t, r.endDate.t)
                            /\ x.status \in {"REJECTED", "CANCELLED"}

\* C4: an update never conflicts with the event being updated: the event
\* named in a 409 is another one, and a 409 is answered only when another
\* PENDING/APPROVED event at the requested venue overlaps the requested slot.
C4_NoSelfConflictOnUpdate ==
    \A c \in DOMAIN calls :
       LET r == calls[c] IN
       (r.pc = "done" /\ r.op = "updateEvent" /\ r.status = 409)
       => /\ r.id \notin r.conflict
          /\ \E x \in events : /\ x.id # r.id
                               /\ Occupies(x, Requested(r).location)
                               /\ Overlaps(x, Requested(r).startDate,
                                           Requested(r).endDate)

\* a PENDING or APPROVED event was updated (200) with its own current
\* location, startDate and endDate
C4_Witness ==
    \E c \in DOMAIN calls :
       LET r == calls[c] IN
       /\ r.pc = "done" /\ r.op = "updateEvent" /\ r.status = 200
       /\ \E x \in r.event : /\ x \in events
                             /\ x.status \in ActiveStatuses
                             /\ r.location = x.location
                             /\ r.startDate = IsoStr(x.startDate)
                             /\ r.endDate = IsoStr(x.endDate)

\* C12: bookedSlots is ordered by start time ascending: any two consecutive
\* entries p, q have p.start <= q.start.
C12_BookedSlotsAscending ==
    \A c \in DOMAIN calls :
       LET r == calls[c] IN
       (r.op = "getVenueSchedule" /\ r.pc = "done" /\ r.status = 200)
       => \A i \in 1..(Len(r.bookedSlots) - 1) :
             r.bookedSlots[i].start <= r.bookedSlots[i + 1].start

\* a schedule with two entries that start at different times
C12_Witness ==
    \E c \in DOMAIN calls :
       LET r == calls[c] IN
       /\ r.op = "getVenueSchedule" /\ r.pc = "done" /\ r.status = 200
       /\ Len(r.bookedSlots) = 2
       /\ r.bookedSlots[1].start < r.bookedSlots[2].start

\* C15: a reported conflict names one currently stored event, at exactly the
\* requested location, PENDING or APPROVED, other than the excluded/updated
\* event, whose interval overlaps the requested one.
C15_ConflictingEventIsReal ==
    \A c \in DOMAIN calls :
       LET r == calls[c]
           named == {x \in events : x.id \in r.conflict}
       IN  /\ (r.pc = "done" /\ r.op = "createEvent" /\ r.status = 409)
              => /\ Cardinality(r.conflict) = 1 /\ named # {}
                 /\ \A x \in named : /\ Occupies(x, r.location)
                                      /\ Overlaps(x, r.startDate.t, r.endDate.t)
           /\ (AnsweredAvailability(r) /\ r.available = "false")
              => /\ Cardinality(r.conflict) = 1 /\ named # {}
                 /\ \A x \in named : /\ Occupies(x, r.location)
                                      /\ x.id \notin r.excludeEventId
                                      /\ Overlaps(x, r.startDate.t, r.endDate.t)
           /\ (r.pc = "done" /\ r.op = "updateEvent" /\ r.status = 409)
              => /\ Cardinality(r.conflict) = 1 /\ named # {}
                 /\ \A x \in named : /\ Occupies(x, Requested(r).location)
                                      /\ x.id # r.id
                                      /\ Overlaps(x, Requested(r).startDate,
                                                  Requested(r).endDate)

\* an availability check that excludes an event overlapping the slot and
\* reports a conflict with another event
C15_Witness ==
    \E c \in DOMAIN calls :
       LET r == calls[c] IN
       /\ AnsweredAvailability(r) /\ r.available = "false"
       /\ \E x, y \in events :
             /\ x.id \in r.excludeEventId /\ Occupies(x, r.location)
             /\ Overlaps(x, r.startDate.t, r.endDate.t)
             /\ r.conflict = {y.id} /\ y.id # x.id

\* C16: the approval workflow, with requests served on any number of
\* connections.  In every step: an event that enters the
\* store is PENDING; a status changes only from PENDING to APPROVED by the
\* write of an approveEvent, or from PENDING to REJECTED by the write of a
\* rejectEvent (so never by an updateEvent); an approveEvent or rejectEvent
\* proceeds to its write only for a PENDING event, and one answered 400
\* names an event that is not PENDING and leaves the store unchanged.
C16_ApprovalWorkflow ==
    [][/\ \A y \in events' :
            LET old == {x \in events : x.id = y.id} IN
            /\ old = {} => y.status = "PENDING"
            /\ \A x \in old : x.status # y.status =>
                  /\ x.status = "PENDING"
                  /\ \E c \in DOMAIN calls :
                        /\ calls[c].id = y.id /\ calls'[c].pc = "done"
                        /\ \/ calls[c].pc = "approve" /\ y.status = "APPROVED"
                           \/ calls[c].pc = "reject" /\ y.status = "REJECTED"
       /\ \A c \in DOMAIN calls :
            (calls[c].pc = "idle" /\ calls'[c].op \in {"approveEvent", "rejectEvent"})
            => /\ events' = events
               /\ calls'[c].pc \in {"approve", "reject"}
                  => \E x \in events : x.id = calls'[c].id /\ x.status = "PENDING"
               /\ (\E x \in events : x.id = calls'[c].id /\ x.status # "PENDING")
                  => (calls'[c].pc = "done" /\ calls'[c].status = 400)
               /\ (calls'[c].pc = "done" /\ calls'[c].status = 400)
                  => \E x \in events : x.id = calls'[c].id /\ x.status # "PENDING"
      ]_vars

\* C20: only the creator of an event or an ADMIN can modify or delete it.
\* An updateEvent or deleteEvent request is answered 404 exactly when no
\* event has the id, and 403 exactly when the event exists and the user is
\* neither its creator nor an ADMIN; in both cases, as in the whole of this
\* first step, the event store is left unchanged.
C20_OnlyCreatorOrAdmin ==
    [][\A c \in DOMAIN calls :
         LET r == calls'[c]
             target == {x \in events : x.id = r.id}
         IN  (calls[c].pc = "idle" /\ r.op \in {"updateEvent", "deleteEvent"})
             => /\ events' = events
                /\ (r.pc = "done" /\ r.status = 404) <=> target = {}
                /\ (r.pc = "done" /\ r.status = 403)
                   <=> \E x \in target : /\ x.createdById # r.user
                                          /\ r.user \notin Admins
      ]_vars

\* a deleteEvent by an organizer who did not create the event was answered
\* 403 and the event is still stored
C20_Witness ==
    \E c \in DOMAIN calls :
       LET r == calls[c] IN
       /\ r.pc = "done" /\ r.op = "deleteEvent" /\ r.status = 403
       /\ r.user \in Organizers
       /\ \E x \in events : x.id = r.id /\ x.createdById # r.user

\* ------------------------------------ specification: a repeated check
\* The store holds up to MaxEvents events, no two PENDING/APPROVED ones at a
\* venue overlapping, and is never written.  A client asks for availability
\* and then asks again with the same query on another connection.
BookedStores(n) ==
    {S \in StoresOf(n, {MaxAttendees}) :
        \A x, y \in S : (x.id # y.id /\ Occupies(x, y.location)
                          /\ y.status \in ActiveStatuses)
                         => ~(x.startDate < y.endDate /\ y.startDate < x.endDate)}

InitRepeat ==
    /\ events \in BookedStores(MaxEvents)
    /\ nextId = Cardinality(events) + 1
    /\ registrations = {} /\ nextRegId = 1
    /\ calls = [c \in 1..MaxCalls |-> IdleCall]

Ask_checkAvailability ==
    /\ \A c \in DOMAIN calls : Idle(c)
    /\ \E location \in LocationInputs, startDate \in DateInputs,
          endDate \in DateInputs, excludeEventId \in ExcludeInputs :
          checkAvailability(1, location, startDate, endDate, excludeEventId)

Repeat_checkAvailability ==
    \E c \in DOMAIN calls \ {1} :
       /\ Idle(c)
       /\ calls[1].pc = "done" /\ calls[1].op = "checkAvailability"
       /\ checkAvailability(c, calls[1].location, calls[1].startDate,
                            calls[1].endDate, calls[1].excludeEventId)

NextRepeat ==
    \/ Ask_checkAvailability
    \/ Repeat_checkAvailability
    \/ \E c \in DOMAIN calls : Close(c)

SpecRepeat == InitRepeat /\ [][NextRepeat]_vars

\* C14: the conflict check is repeatable: two answered checks with the same
\* location, dates and excludeEventId, with no write in between, give the
\* same answer and name the same conflicting event.
C14_RepeatableCheck ==
    \A c, d \in DOMAIN calls :
       (/\ AnsweredAvailability(calls[c]) /\ AnsweredAvailability(calls[d])
        /\ calls[c].location = calls[d].location
        /\ calls[c].startDate = calls[d].startDate
        /\ calls[c].endDate = calls[d].endDate
        /\ calls[c].excludeEventId = calls[d].excludeEventId)
       => /\ calls[c].available = calls[d].available
          /\ calls[c].conflict = calls[d].conflict

\* ------------------------------------------ specification: src/controllers
\* The application with the event controller of src/controllers, one request
\* at a time.
Arrive_createEventUnchecked ==
    \E c \in DOMAIN calls :
       /\ Idle(c)
       /\ \E user \in Creators, location \in LocationInputs,
             startDate \in DateInputs, endDate \in DateInputs,
             maxAttendees \in CreateCapacities :
             createEventUnchecked(c, user, location, startDate, endDate,
                                  maxAttendees)

Arrive_updateEventUnchecked ==
    \E c \in DOMAIN calls :
       /\ Idle(c)
       /\ \E user \in Users, id \in EventIds, location \in LocationInputs,
             startDate \in DateInputs, endDate \in DateInputs,
             maxAttendees \in UpdateCapacities :
             updateEventUnchecked(c, user, id, location, startDate, endDate,
                                  maxAttendees)

NextSrc ==
    \/ Arrive_createEventUnchecked
    \/ Arrive_updateEventUnchecked
    \/ \E c \in DOMAIN calls : updateEventWrite(c)
    \/ Arrive_approveEvent
    \/ \E c \in DOMAIN calls : approveEventWrite(c)
    \/ Arrive_rejectEvent
    \/ \E c \in DOMAIN calls : rejectEventWrite(c)
    \/ \E c \in DOMAIN calls : Close(c)

SpecSrc == Init /\ [][NextSrc]_vars

\* C5: the conflict check precedes persisting: createEvent answers 201, and
\* an updateEvent that names a location or a date answers 200, only when no
\* other PENDING/APPROVED event at the target venue overlaps the slot
\* (otherwise the answer is 409 and nothing is stored).
C5_NoPersistOverConflict ==
    \A c \in DOMAIN calls :
       LET r == calls[c] IN
       (/\ r.pc = "done"
        /\ \/ r.op = "createEvent" /\ r.status = 201
           \/ /\ r.op = "updateEvent" /\ r.status = 200
              /\ TouchesSlot(r.location, r.startDate, r.endDate))
       => \A y \in events : y.id = r.id =>
             ~\E x \in events : /\ x.id # y.id
                                /\ Occupies(x, y.location)
                                /\ Overlaps(x, y.startDate, y.endDate)

\* ------------------------------------------ specification: registrations
\* Students register for and cancel their registrations of the seeded event,
\* and its organizer changes its maxAttendees, one request at a time.
RegistrationStores == StoresOf(MaxSeed, 1..MaxAttendees)

InitReg ==
    /\ events \in RegistrationStores
    /\ nextId = Cardinality(events) + 1
    /\ registrations = {} /\ nextRegId = 1
    /\ calls = [c \in {1} |-> IdleCall]

Arrive_registerForEvent ==
    \E c \in DOMAIN calls :
       Idle(c) /\ \E user \in Students, eventId \in EventIds :
                     registerForEvent(c, user, eventId)

Arrive_cancelRegistration ==
    \E c \in DOMAIN calls :
       Idle(c) /\ \E user \in Students, eventId \in EventIds :
                     cancelRegistration(c, user, eventId)

Arrive_updateCapacity ==
    \E c \in DOMAIN calls :
       Idle(c) /\ \E user \in Creators, id \in EventIds,
                     maxAttendees \in CapacityInputs :
                     updateEvent(c, user, id, NoLocation, AbsentStr, AbsentStr,
                                 maxAttendees)

NextReg ==
    \/ Arrive_registerForEvent
    \/ \E c \in DOMAIN calls : registerFind(c)
    \/ \E c \in DOMAIN calls : registerCreate(c)
    \/ \E c \in DOMAIN calls : registerQrCode(c)
    \/ \E c \in DOMAIN calls : registerCount(c)
    \/ Arrive_cancelRegistration
    \/ \E c \in DOMAIN calls : cancelUpdate(c)
    \/ \E c \in DOMAIN calls : cancelCount(c)
    \/ Arrive_updateCapacity
    \/ \E c \in DOMAIN calls : updateEventWrite(c)
    \/ \E c \in DOMAIN calls : Close(c)

SpecReg == InitReg /\ [][NextReg]_vars

\* C17: the number of REGISTERED registrations of an event never exceeds its
\* maxAttendees, and a registerForEvent answered 'Event is full' found the
\* event full and stored nothing.
C17_CapacityRespected ==
    /\ \A x \in events : RegisteredCount(x.id) <= x.maxAttendees
    /\ \A c \in DOMAIN calls :
          (calls[c].pc = "done" /\ calls[c].error = "Event is full")
          => /\ calls[c].status = 400
             /\ \E x \in events : /\ x.id = calls[c].id
                                  /\ RegisteredCount(x.id) >= x.maxAttendees
             /\ nextRegId = Cardinality(registrations) + 1

\* C19: a registerForEvent that passed the checks on the event (APPROVED, not
\* started, not full) and found the student's earlier registration CANCELLED
\* ends with 201 and the student REGISTERED for the event.
C19_ReRegistrationSucceeds ==
    \A c \in DOMAIN calls :
       LET r == calls[c] IN
       (r.pc = "done" /\ r.op = "registerForEvent" /\ r.existing = "CANCELLED")
       => /\ r.status = 201
          /\ \E g \in RegistrationOf(r.user, r.id) : g.status = "REGISTERED"

\* --------------------------- specification: concurrent registrations
\* MaxCalls registration requests are served at once.
InitRegRace ==
    /\ events \in RegistrationStores
    /\ nextId = Cardinality(events) + 1
    /\ registrations = {} /\ nextRegId = 1
    /\ calls = [c \in 1..MaxCalls |-> IdleCall]

NextRegRace ==
    \/ Arrive_registerForEvent
    \/ \E c \in DOMAIN calls : registerFind(c)
    \/ \E c \in DOMAIN calls : registerCreate(c)
    \/ \E c \in DOMAIN calls : registerQrCode(c)
    \/ \E c \in DOMAIN calls : registerCount(c)
    \/ Arrive_cancelRegistration
    \/ \E c \in DOMAIN calls : cancelUpdate(c)
    \/ \E c \in DOMAIN calls : cancelCount(c)
    \/ \E c \in DOMAIN calls : Close(c)

SpecRegRace == InitRegRace /\ [][NextRegRace]_vars

\* C18: no duplicate registration, also with concurrent requests.  After
\* every step each (user, event) pair has at most one REGISTERED
\* registration; a registerForEvent arriving for, or looking up the
\* registration of, a user who is REGISTERED for the event goes no further
\* than that lookup and is answered 400, and an 'already registered' answer
\* leaves the registrations and the events (currentAttendees) unchanged.
C18_NoDuplicateRegistration ==
    [][/\ \A g, h \in registrations' :
            (g.userId = h.userId /\ g.eventId = h.eventId
             /\ g.status = "REGISTERED" /\ h.status = "REGISTERED") => g = h
       /\ \A c \in DOMAIN calls :
            LET r == calls'[c]
                registered == \E g \in RegistrationOf(r.user, r.id) :
                                 g.status = "REGISTERED"
            IN  /\ (calls[c].pc = "idle" /\ r.op = "registerForEvent" /\ registered)
                   => \/ r.pc = "done" /\ r.status = 400
                      \/ r.pc = "register_find"
                /\ (calls[c].pc = "register_find" /\ r.pc # "register_find"
                    /\ registered)
                   => /\ r.pc = "done" /\ r.status = 400
                      /\ r.error = "You are already registered for this event"
                /\ (calls[c].pc # "done" /\ r.pc = "done"
                    /\ r.error = "You are already registered for this event")
                   => /\ r.status = 400 /\ registered
                      /\ registrations' = registrations /\ events' = events
      ]_vars

\* two registerForEvent requests of one user for one event were served at
\* once: one was answered 201, the other 500, and the user has one
\* registration
C18_Witness ==
    \E c, d \in DOMAIN calls :
       /\ calls[c].op = "registerForEvent" /\ calls[d].op = "registerForEvent"
       /\ calls[c].user = calls[d].user /\ calls[c].id = calls[d].id
       /\ calls[c].pc = "done" /\ calls[c].status = 201
       /\ calls[d].pc = "done" /\ calls[d].status = 500
       /\ Cardinality(RegistrationOf(calls[c].user, calls[c].id)) = 1

\* ------------------------------------ specification: concurrent requests
\* MaxCalls connections are served at once; the steps of their handlers (the
\* stretches between awaits) interleave freely.  Starting from an empty
\* store, org1 books HallA and moves the start or the end of its bookings.
IsoDates == {IsoStr(t) : t \in Times}

InitRace ==
    /\ events = {}
    /\ nextId = 1
    /\ registrations = {} /\ nextRegId = 1
    /\ calls = [c \in 1..MaxCalls |-> IdleCall]

Race_createEvent ==
    \E c \in DOMAIN calls :
       /\ Idle(c)
       /\ \E startDate \in IsoDates, endDate \in IsoDates :
             createEvent(c, "org1", "HallA", startDate, endDate, 1)

Race_updateEvent ==
    \E c \in DOMAIN calls :
       /\ Idle(c)
       /\ \E id \in EventIds, date \in IsoDates :
             \/ updateEvent(c, "org1", id, NoLocation, date, AbsentStr, 0)
             \/ updateEvent(c, "org1", id, NoLocation, AbsentStr, date, 0)

NextRace ==
    \/ Race_createEvent
    \/ \E c \in DOMAIN calls : createEventWrite(c)
    \/ Race_updateEvent
    \/ \E c \in DOMAIN calls : updateEventCheck(c)
    \/ \E c \in DOMAIN calls : updateEventWrite(c)
    \/ \E c \in DOMAIN calls : Close(c)

SpecRace == InitRace /\ [][NextRace]_vars

\* C6: the conflict check is sound when it runs, but nothing excludes a
\* write between a check and its own write: a createEvent passes its check
\* (and an updateEvent its own) only if, at that moment, no other
\* PENDING/APPROVED event at the venue overlaps the slot; the witness is a
\* store in which two such events overlap all the same.
C6_CheckPassesOnlyWithoutOverlap ==
    [][\A c \in DOMAIN calls :
         /\ (calls[c].pc = "idle" /\ calls'[c].pc = "create")
            => ~\E x \in events :
                  /\ Occupies(x, calls'[c].location)
                  /\ Overlaps(x, calls'[c].startDate.t, calls'[c].endDate.t)
         /\ (calls[c].pc = "update_check" /\ calls'[c].pc = "update")
            => ~\E x \in events :
                  /\ x.id # calls[c].id
                  /\ Occupies(x, Requested(calls[c]).location)
                  /\ Overlaps(x, Requested(calls[c]).startDate,
                              Requested(calls[c]).endDate)]_vars

\* two distinct PENDING/APPROVED events at one venue, each with
\* startDate < endDate, overlap
C6_Witness ==
    \E x, y \in events :
       /\ x.id # y.id
       /\ x.startDate < x.endDate /\ y.startDate < y.endDate
       /\ Occupies(x, y.location) /\ y.status \in ActiveStatuses
       /\ Overlaps(x, y.startDate, y.endDate)

\* C7: every stored event has startDate < endDate.
C7_StartBeforeEnd == \A x \in events : x.startDate < x.endDate

\* ------------------------------------- specification: listing the events
\* The store holds up to MaxEvents events of any status and is never
\* written; clients send GET /api/events.
InitList ==
    /\ events \in StoresOf(MaxEvents, {MaxAttendees})
    /\ nextId = Cardinality(events) + 1
    /\ registrations = {} /\ nextRegId = 1
    /\ calls = [c \in {1} |-> IdleCall]

Arrive_getEvents ==
    \E c \in DOMAIN calls :
       Idle(c) /\ \E caller \in Callers, status \in StatusInputs,
                     upcoming \in UpcomingInputs :
                     getEvents(c, caller, PublicRoute(caller), status, upcoming)

NextList ==
    \/ Arrive_getEvents
    \/ \E c \in DOMAIN calls : Close(c)

SpecList == InitList /\ [][NextList]_vars

\* C21: a GET /api/events sent by a STUDENT without a status filter is
\* answered with APPROVED events only.
C21_StudentsSeeApproved ==
    \A c \in DOMAIN calls :
       (/\ calls[c].op = "getEvents" /\ calls[c].pc = "done"
        /\ calls[c].status = 200
        /\ calls[c].caller # NoUser /\ RoleOfUser(calls[c].caller) = "STUDENT"
        /\ calls[c].statusFilter = NoStatus)
       => \A i \in DOMAIN calls[c].found : calls[c].found[i].status = "APPROVED"

\* -------------------------- specification: bookings served one at a time
\* The store starts with up to MaxSeed events, no two PENDING/APPROVED ones
\* at a venue overlapping; the writing handlers are served on one
\* connection, each running to its answer before the next request.
InitBooked ==
    /\ events \in BookedStores(MaxSeed)
    /\ nextId = Cardinality(events) + 1
    /\ registrations = {} /\ nextRegId = 1
    /\ calls = [c \in {1} |-> IdleCall]

NextBooked ==
    \/ Arrive_createEvent
    \/ \E c \in DOMAIN calls : createEventWrite(c)
    \/ Arrive_updateEvent
    \/ \E c \in DOMAIN calls : updateEventCheck(c)
    \/ \E c \in DOMAIN calls : updateEventWrite(c)
    \/ Arrive_deleteEvent
    \/ \E c \in DOMAIN calls : deleteEventWrite(c)
    \/ Arrive_approveEvent
    \/ \E c \in DOMAIN calls : approveEventWrite(c)
    \/ Arrive_rejectEvent
    \/ \E c \in DOMAIN calls : rejectEventWrite(c)
    \/ \E c \in DOMAIN calls : Close(c)

SpecBooked == InitBooked /\ [][NextBooked]_vars

\* C22: with the handlers served one at a time (SpecBooked has one connection),
\* no two distinct PENDING/APPROVED events at one venue ever overlap as
\* half-open intervals, after any sequence of createEvent, updateEvent,
\* approveEvent, rejectEvent and deleteEvent requests.
C22_NoOverlapSequential ==
    \A x, y \in events :
       (x.id # y.id /\ Occupies(x, y.location) /\ y.status \in ActiveStatuses)
       => ~Overlaps(x, y.startDate, y.endDate)

\* an updateEvent has just been answered 200 and the store holds two
\* PENDING/APPROVED events at one venue, back to back
C22_Witness ==
    /\ \E c \in DOMAIN calls :
          calls[c].op = "updateEvent" /\ calls[c].pc = "done" /\ calls[c].status = 200
    /\ \E x, y \in events :
          /\ x.id # y.id /\ Occupies(x, y.location) /\ y.status \in ActiveStatuses
          /\ x.endDate = y.startDate

\* C23: with registerForEvent requests of different students served at the
\* same time, the number of REGISTERED registrations of an event never
\* exceeds its maxAttendees.
C23_CapacityUnderRace ==
    \A x \in events : RegisteredCount(x.id) <= x.maxAttendees

\* C24: whenever no request is in flight, each event's currentAttendees is
\* the number of its REGISTERED registrations and is not negative, under
\* every interleaving of registerForEvent and cancelRegistration requests.
C24_AttendeeCountConsistent ==
    (\A c \in DOMAIN calls : calls[c].pc \in {"idle", "done"})
    => \A x \in events : /\ x.currentAttendees = RegisteredCount(x.id)
                         /\ x.currentAttendees >= 0

\* ------------------------------ specification: concurrent admin decisions
\* approveEvent and rejectEvent requests are served on MaxCalls connections,
\* each handler stepping from its read to its write.
InitDecide ==
    /\ events \in SeedStores
    /\ nextId = Cardinality(events) + 1
    /\ registrations = {} /\ nextRegId = 1
    /\ calls = [c \in 1..MaxCalls |-> IdleCall]

NextDecide ==
    \/ Arrive_approveEvent
    \/ \E c \in DOMAIN calls : approveEventWrite(c)
    \/ Arrive_rejectEvent
    \/ \E c \in DOMAIN calls : rejectEventWrite(c)
    \/ \E c \in DOMAIN calls : Close(c)

SpecDecide == InitDecide /\ [][NextDecide]_vars

\* C25: an admin decision is final under every interleaving: no step takes
\* a stored event from APPROVED to REJECTED or from REJECTED to APPROVED.
C25_DecisionIsFinal ==
    [][\A x \in events, y \in events' :
         x.id = y.id =>
            /\ ~(x.status = "APPROVED" /\ y.status = "REJECTED")
            /\ ~(x.status = "REJECTED" /\ y.status = "APPROVED")]_vars

====
